---- MODULE Spec2Model ----
(***************************************************************************)
(* Model of src/watch.rs: the Watcher future, which supervises an actor's  *)
(* ContextFut, sends WatchEvent::Stopped to its subscribers when that      *)
(* future resolves, and completes once every RecipientRequest it issued    *)
(* has resolved.                                                           *)
(*                                                                         *)
(* The Watcher's fields are the variables fut, subscribers and             *)
(* notifications.  The two kinds of futures it polls are external: their   *)
(* state (futState, dstate) belongs to the environment, which resolves     *)
(* them between Watcher polls; a freshly issued request may also already   *)
(* be resolved at its first poll.  The remaining variables record what the *)
(* calls did (sends, result, polled futures), for the properties.          *)
(*                                                                         *)
(* Three specifications: Spec is the Watcher struct with any subscriber    *)
(* list, polled by whoever holds it; LiveSpec is the same on a scheduler   *)
(* that keeps polling, with futures that resolve; BootSpec is the Watcher  *)
(* as start and start_in_arbiter build it, with the actor's channel.       *)
(***************************************************************************)
EXTENDS Integers, Sequences, FiniteSets, TLC

\* Largest subscriber list explored.
MaxSubs == 3
\* Largest number of Watcher::poll calls explored.
MaxPolls == 5
\* Largest number of messages sent through the actor's address.
MaxMsgs == 17

\* mailbox::DEFAULT_CAPACITY, the capacity start_in_arbiter gives the channel.
DEFAULT_CAPACITY == 16

\* What a poll of a futures-0.1 Future returns: Ok(NotReady), Ok(Ready), Err.
Outcomes == {"NotReady", "Ready", "Err"}
Terminal == {"Ready", "Err"}

VARIABLES
    fut,            \* Watcher.fut: "Some" while the ContextFut is held, "None" after
    subscribers,    \* Watcher.subscribers: sequence of recipients
    notifications,  \* Watcher.notifications: sequence of request ids (indices of sends)
    futState,       \* environment: what the ContextFut's poll returns now
    dstate,         \* environment: dstate[d] is what request d's poll returns now
    stuck,          \* environment: recipients whose requests never resolve
    sends,          \* history: the send calls made, in order, as [to, event]
    result,         \* what the last Watcher::poll returned ("none" before the first)
    polls,          \* history: number of Watcher::poll calls
    readyCount,     \* history: number of Watcher::poll calls that returned Ready
    observed,       \* history: a poll of the ContextFut returned Ready or Err
    futPolled,      \* history: the last Watcher::poll polled the ContextFut
    dpolled,        \* history: requests polled by the last Watcher::poll, in order
    resolvedSeen,   \* history: requests whose poll returned Ready or Err
    phase,          \* "idle": no constructor called; "queued": start_in_arbiter
                    \* returned, its Execute closure not yet run; "spawned": the
                    \* Watcher is registered with its arbiter
    captured,       \* the recipient the Execute closure captured (0: none)
    chan,           \* the actor's channel: messages buffered, oldest first
    accepted,       \* history: number of messages the channel accepted (ids 1..accepted)
    delivered,      \* history: messages the actor's context received, in order
    filledBefore,   \* history: the channel was full when the Execute closure ran
    refused         \* history: a send found the channel full

\* The bootstrap's variables.
boot == <<phase, captured, chan, accepted, delivered, filledBefore, refused>>

vars == <<fut, subscribers, notifications, futState, dstate, stuck, sends,
          result, polls, readyCount, observed, futPolled, dpolled, resolvedSeen,
          phase, captured, chan, accepted, delivered, filledBefore, refused>>

Recipients == 1..MaxSubs

\* ---------------------------------------------------------------------------
\* The Watcher's code
\* ---------------------------------------------------------------------------

\* struct Watcher { fut, subscribers, notifications }
Watcher(f, subs, notifs) ==
    [fut |-> f, subscribers |-> subs, notifications |-> notifs]

\* Watcher::new(r, f)
new(r) == Watcher("Some", <<r>>, <<>>)

\* notify keeping no request for the last subscriber it sends to.
notify_drops_last(self, nsent) ==
    self.notifications \o [k \in 1..(Len(self.subscribers) - 1) |-> nsent + k]

\* Watcher::notify: one send per subscriber, in list order; request ids continue
\* after the nsent requests issued so far.  Returns the new notifications.
notify(self, nsent) ==
    self.notifications \o [k \in 1..Len(self.subscribers) |-> nsent + k]

\* The send calls notify makes: s.send(event.clone()) for each subscriber.
notify_sends(self, event) ==
    [k \in 1..Len(self.subscribers) |-> [to |-> self.subscribers[k], event |-> event]]

\* poll_for_event reporting the event whatever fut.poll() returned.
poll_for_event_eager(self, fs) ==
    IF self.fut = "Some" THEN "Stopped" ELSE "None"

\* poll_for_event polling the future without the test that it is still held.
poll_for_event_no_guard(self, fs) ==
    IF fs = "NotReady" THEN "None" ELSE "Stopped"

\* poll_for_event taking Err(_) for "no event" instead of Stopped.
poll_for_event_err_none(self, fs) ==
    IF self.fut = "Some"
    THEN IF fs = "Ready" THEN "Stopped" ELSE "None"
    ELSE "None"

\* Watcher::poll_for_event: Option<WatchEvent>, given what fut.poll() returns.
poll_for_event(self, fs) ==
    IF self.fut = "Some"
    THEN IF fs = "NotReady" THEN "None" ELSE "Stopped"
    ELSE "None"

\* The loop without the push of a request that is not ready.
RECURSIVE drain_drops_pending(_, _, _, _)
drain_drops_pending(local, kept, polled, ds) ==
    IF local = <<>>
    THEN [notifications |-> kept, polled |-> polled]
    ELSE drain_drops_pending(SubSeq(local, 1, Len(local) - 1), kept,
                             Append(polled, local[Len(local)]), ds)

\* The loop pushing every request back, resolved or not.
RECURSIVE drain_keeps_all(_, _, _, _)
drain_keeps_all(local, kept, polled, ds) ==
    IF local = <<>>
    THEN [notifications |-> kept, polled |-> polled]
    ELSE drain_keeps_all(SubSeq(local, 1, Len(local) - 1),
                         Append(kept, local[Len(local)]),
                         Append(polled, local[Len(local)]), ds)

\* The loop pushing a failed request back with those that are not ready.
RECURSIVE drain_retries_failed(_, _, _, _)
drain_retries_failed(local, kept, polled, ds) ==
    IF local = <<>>
    THEN [notifications |-> kept, polled |-> polled]
    ELSE LET n == local[Len(local)]
             rest == SubSeq(local, 1, Len(local) - 1)
         IN  IF ds[n] = "Ready"
             THEN drain_retries_failed(rest, kept, Append(polled, n), ds)
             ELSE drain_retries_failed(rest, Append(kept, n), Append(polled, n), ds)

\* The loop as an "if let": one request popped and polled, the others put
\* back unpolled.
drain_pops_one(local, kept, polled, ds) ==
    IF local = <<>>
    THEN [notifications |-> kept, polled |-> polled]
    ELSE LET n == local[Len(local)]
             rest == SubSeq(local, 1, Len(local) - 1)
         IN  [notifications |-> (IF ds[n] = "NotReady" THEN Append(kept, n) ELSE kept)
                                    \o rest,
              polled |-> Append(polled, n)]

\* The loop with its match arms exchanged: a resolved request is pushed back,
\* one that is not ready is dropped.
RECURSIVE drain_inverted(_, _, _, _)
drain_inverted(local, kept, polled, ds) ==
    IF local = <<>>
    THEN [notifications |-> kept, polled |-> polled]
    ELSE LET n == local[Len(local)]
             rest == SubSeq(local, 1, Len(local) - 1)
         IN  IF ds[n] = "NotReady"
             THEN drain_inverted(rest, kept, Append(polled, n), ds)
             ELSE drain_inverted(rest, Append(kept, n), Append(polled, n), ds)

\* The while loop of poll_notifications: pop the last request of the local
\* vector, poll it, push it back on self.notifications when it is not ready.
RECURSIVE drain(_, _, _, _)
drain(local, kept, polled, ds) ==
    IF local = <<>>
    THEN [notifications |-> kept, polled |-> polled]
    ELSE LET n == local[Len(local)]
             rest == SubSeq(local, 1, Len(local) - 1)
         IN  IF ds[n] = "NotReady"
             THEN drain(rest, Append(kept, n), Append(polled, n), ds)
             ELSE drain(rest, kept, Append(polled, n), ds)

\* The return value computed from the local vector, which the loop emptied.
poll_notifications_ret_local(left) == "Ready"

\* The value poll_notifications returns, from the notifications left.
poll_notifications_ret(left) ==
    IF left = <<>> THEN "Ready" ELSE "NotReady"

\* poll_notifications returning the error of a failed request.
poll_notifications_try(self, ds) ==
    LET d == drain(self.notifications, <<>>, <<>>, ds)
    IN  [notifications |-> d.notifications,
         polled |-> d.polled,
         ret |-> IF \E i \in 1..Len(d.polled) : ds[d.polled[i]] = "Err"
                 THEN "Err"
                 ELSE poll_notifications_ret(d.notifications)]

\* Watcher::poll_notifications: split_off(0) moves every request to the local
\* vector and leaves self.notifications empty.
poll_notifications(self, ds) ==
    LET d == drain(self.notifications, <<>>, <<>>, ds)
    IN  [notifications |-> d.notifications,
         polled |-> d.polled,
         ret |-> poll_notifications_ret(d.notifications)]

\* The first half of poll without self.fut = None.
poll_observe_keeps_fut(self, fs, nsent) ==
    LET e == poll_for_event(self, fs)
    IN  IF e # "None"
        THEN [self |-> Watcher(self.fut, self.subscribers, notify(self, nsent)),
              sent |-> notify_sends(self, e)]
        ELSE [self |-> self, sent |-> <<>>]

\* The first half of poll with self.fut = None outside the "if let".
poll_observe_always_clears(self, fs, nsent) ==
    LET e == poll_for_event(self, fs)
    IN  IF e # "None"
        THEN [self |-> Watcher("None", self.subscribers, notify(self, nsent)),
              sent |-> notify_sends(self, e)]
        ELSE [self |-> Watcher("None", self.subscribers, self.notifications),
              sent |-> <<>>]

\* The first half of poll taking the subscribers out of the list
\* (drain(..) instead of iter()).
poll_observe_drains_subscribers(self, fs, nsent) ==
    LET e == poll_for_event(self, fs)
    IN  IF e # "None"
        THEN [self |-> Watcher("None", <<>>, notify(self, nsent)),
              sent |-> notify_sends(self, e)]
        ELSE [self |-> self, sent |-> <<>>]

\* The first half of Watcher::poll: poll_for_event, then notify and fut = None
\* when it returned an event.
poll_observe(self, fs, nsent) ==
    LET e == poll_for_event(self, fs)
    IN  IF e # "None"
        THEN [self |-> Watcher("None", self.subscribers, notify(self, nsent)),
              sent |-> notify_sends(self, e)]
        ELSE [self |-> self, sent |-> <<>>]

\* The second half of poll without the test of self.fut.
poll_drain_always(self, ds) ==
    LET p == poll_notifications(self, ds)
    IN  [self |-> Watcher(self.fut, self.subscribers, p.notifications),
         polled |-> p.polled, ret |-> p.ret]

\* The second half of Watcher::poll.
poll_drain(self, ds) ==
    IF self.fut = "None"
    THEN LET p == poll_notifications(self, ds)
         IN  [self |-> Watcher(self.fut, self.subscribers, p.notifications),
              polled |-> p.polled, ret |-> p.ret]
    ELSE [self |-> self, polled |-> <<>>, ret |-> "NotReady"]

\* poll with "else if": the call that notifies returns NotReady and leaves the
\* first poll of the requests to the next call.
poll_two_step(self, fs, ds, fresh) ==
    LET o == poll_observe(self, fs, Len(ds))
        ds2 == IF o.sent = <<>> THEN ds ELSE ds \o fresh
        p == IF self.fut = "Some" /\ o.self.fut = "None"
             THEN [self |-> o.self, polled |-> <<>>, ret |-> "NotReady"]
             ELSE poll_drain(o.self, ds2)
    IN  [self |-> p.self, ret |-> p.ret, sent |-> o.sent, dstate |-> ds2,
         futPolled |-> (self.fut = "Some"), polled |-> p.polled]

\* Watcher::poll.  fs is what the ContextFut returns when polled, ds what each
\* request issued so far returns, fresh what each request issued in this call
\* returns at its first poll.
poll(self, fs, ds, fresh) ==
    LET o == poll_observe(self, fs, Len(ds))
        ds2 == IF o.sent = <<>> THEN ds ELSE ds \o fresh
        p == poll_drain(o.self, ds2)
    IN  [self |-> p.self, ret |-> p.ret, sent |-> o.sent, dstate |-> ds2,
         futPolled |-> (self.fut = "Some"), polled |-> p.polled]

\* ---------------------------------------------------------------------------
\* The state machine
\* ---------------------------------------------------------------------------

self == Watcher(fut, subscribers, notifications)

\* Subscriber lists of the Watcher struct: new builds the one-entry list; the
\* Vec field admits any length, and the properties are stated for all of them.
SubscriberLists == {[k \in 1..n |-> k] : n \in 0..MaxSubs}

\* A Watcher spawned by Arbiter::spawn, with an empty channel: the bootstrap's
\* variables where the bootstrap plays no part.
Spawned ==
    /\ phase = "spawned"
    /\ captured = 0
    /\ chan = <<>>
    /\ accepted = 0
    /\ delivered = <<>>
    /\ filledBefore = FALSE
    /\ refused = FALSE

TypeOK ==
    /\ fut \in {"Some", "None"}
    /\ subscribers \in SubscriberLists
    /\ futState \in Outcomes
    /\ stuck \subseteq Recipients
    /\ result \in {"none", "NotReady", "Ready", "Err"}
    /\ polls \in 0..MaxPolls
    /\ readyCount \in 0..MaxPolls
    /\ observed \in BOOLEAN
    /\ futPolled \in BOOLEAN
    /\ Len(dstate) = Len(sends)
    /\ \A d \in 1..Len(dstate) : dstate[d] \in Outcomes

Init ==
    /\ \E subs \in SubscriberLists :
          /\ fut = Watcher("Some", subs, <<>>).fut
          /\ subscribers = Watcher("Some", subs, <<>>).subscribers
          /\ notifications = Watcher("Some", subs, <<>>).notifications
    /\ futState = "NotReady"
    /\ dstate = <<>>
    /\ stuck \in SUBSET {subscribers[k] : k \in 1..Len(subscribers)}
    /\ sends = <<>>
    /\ result = "none"
    /\ polls = 0
    /\ readyCount = 0
    /\ observed = FALSE
    /\ futPolled = FALSE
    /\ dpolled = <<>>
    /\ resolvedSeen = {}
    /\ Spawned

\* What the requests issued in one notify may return at their first poll.
FreshOutcomes ==
    {f \in [1..Len(subscribers) -> Outcomes] :
        \A k \in 1..Len(subscribers) : subscribers[k] \in stuck => f[k] = "NotReady"}

\* The same for a poll call in which the ContextFut returns fs: no request is
\* issued, and none has a first poll, in a call that makes no send.
Fresh(fs) ==
    IF poll_observe(self, fs, Len(dstate)).sent = <<>> THEN {<<>>} ELSE FreshOutcomes

\* The smaller of two numbers.
Min(a, b) == IF a < b THEN a ELSE b

\* What one call of Watcher::poll does to the Watcher and the futures it polls.
PollEffect ==
    /\ \E fresh \in Fresh(futState) :
          \E r \in {poll(self, futState, dstate, fresh)} :
              /\ fut' = r.self.fut
              /\ subscribers' = r.self.subscribers
              /\ notifications' = r.self.notifications
              /\ dstate' = r.dstate
              /\ sends' = sends \o r.sent
              /\ result' = r.ret
              /\ readyCount' = IF r.ret = "Ready"
                                THEN Min(readyCount + 1, MaxPolls)
                                ELSE readyCount
              /\ observed' = (observed \/ (r.futPolled /\ futState \in Terminal))
              /\ futPolled' = r.futPolled
              /\ dpolled' = r.polled
              /\ resolvedSeen' = resolvedSeen \cup
                    {r.polled[i] : i \in {j \in 1..Len(r.polled) :
                                             r.dstate[r.polled[j]] \in Terminal}}
    /\ UNCHANGED <<futState, stuck>>
    /\ UNCHANGED boot

\* The scheduler (or any holder of the future) calls Watcher::poll.
Poll ==
    /\ phase = "spawned"
    /\ polls < MaxPolls
    /\ polls' = polls + 1
    /\ PollEffect

\* The supervised actor's ContextFut resolves: the actor stopped (Ready) or
\* failed (Err).
FutResolves ==
    /\ fut = "Some"
    /\ futState = "NotReady"
    /\ \E o \in Terminal : futState' = o
    /\ UNCHANGED <<fut, subscribers, notifications, dstate, stuck, sends, result,
                   polls, readyCount, observed, futPolled, dpolled, resolvedSeen>>
    /\ UNCHANGED boot

\* A request in flight resolves: delivered (Ready) or failed (Err).
DeliveryResolves ==
    /\ \E d \in 1..Len(dstate), o \in Terminal :
          /\ dstate[d] = "NotReady"
          /\ sends[d].to \notin stuck
          /\ dstate' = [dstate EXCEPT ![d] = o]
    /\ UNCHANGED <<fut, subscribers, notifications, futState, stuck, sends, result,
                   polls, readyCount, observed, futPolled, dpolled, resolvedSeen>>
    /\ UNCHANGED boot

Next == Poll \/ FutResolves \/ DeliveryResolves

Spec == Init /\ [][Next]_vars

\* A call of Watcher::poll made after MaxPolls calls have been counted: the
\* scheduler goes on polling, the count stays.
LivePoll ==
    /\ phase = "spawned"
    /\ polls = MaxPolls
    /\ polls' = polls
    /\ PollEffect

LiveNext == Next \/ LivePoll

\* The Watcher with no recipient whose requests never resolve.
LiveInit == Init /\ stuck = {}

\* The Watcher on a scheduler that keeps polling it, with a supervised future
\* that resolves at some time and requests that all resolve at some time.
LiveSpec ==
    /\ LiveInit
    /\ [][LiveNext]_vars
    /\ WF_vars(Poll \/ LivePoll)
    /\ WF_vars(FutResolves)
    /\ WF_vars(DeliveryResolves)

\* ---------------------------------------------------------------------------
\* The bootstrap constructors
\* ---------------------------------------------------------------------------

\* Before start or start_in_arbiter is called there is no Watcher, no actor and
\* no channel.
BootInit ==
    /\ fut = "Unbuilt"
    /\ subscribers = <<>>
    /\ notifications = <<>>
    /\ futState = "NotReady"
    /\ dstate = <<>>
    /\ stuck \in {{}, Recipients}
    /\ sends = <<>>
    /\ result = "none"
    /\ polls = 0
    /\ readyCount = 0
    /\ observed = FALSE
    /\ futPolled = FALSE
    /\ dpolled = <<>>
    /\ resolvedSeen = {}
    /\ phase = "idle"
    /\ captured = 0
    /\ chan = <<>>
    /\ accepted = 0
    /\ delivered = <<>>
    /\ filledBefore = FALSE
    /\ refused = FALSE

\* What building and spawning Watcher::new(r, fut) does to the Watcher's fields.
SpawnWatcher(r) ==
    /\ fut' = new(r).fut
    /\ subscribers' = new(r).subscribers
    /\ notifications' = new(r).notifications
    /\ phase' = "spawned"

\* The closure of start_in_arbiter built on a context of its own
\* (Context::new()) instead of Context::with_receiver(rx).
Execute_new_context ==
    /\ phase = "queued"
    /\ SpawnWatcher(captured)
    /\ chan' = <<>>
    /\ filledBefore' = (Len(chan) = DEFAULT_CAPACITY)
    /\ UNCHANGED <<futState, dstate, stuck, sends, result, polls, readyCount,
                   observed, futPolled, dpolled, resolvedSeen,
                   captured, accepted, delivered, refused>>

\* Watcher::start: context, actor, address, future and Watcher are made in one
\* call on the caller's arbiter; the address is returned after the spawn.
Start ==
    /\ phase = "idle"
    /\ \E r \in Recipients : SpawnWatcher(r)
    /\ UNCHANGED <<futState, dstate, stuck, sends, result, polls, readyCount,
                   observed, futPolled, dpolled, resolvedSeen,
                   captured, chan, accepted, delivered, filledBefore, refused>>

\* Watcher::start_in_arbiter: makes the channel, queues the Execute closure
\* (which owns r and the receiving end) on the arbiter and returns the address
\* of the sending end.
StartInArbiter ==
    /\ phase = "idle"
    /\ \E r \in Recipients : captured' = r
    /\ chan' = <<>>
    /\ phase' = "queued"
    /\ UNCHANGED <<fut, subscribers, notifications, futState, dstate, stuck, sends,
                   result, polls, readyCount, observed, futPolled, dpolled,
                   resolvedSeen, accepted, delivered, filledBefore, refused>>

\* The Execute closure runs on the arbiter: the context is built on the
\* receiving end of the channel, so what the channel holds stays in it; the
\* Watcher is built with the captured recipient and spawned.
Execute ==
    /\ phase = "queued"
    /\ SpawnWatcher(captured)
    /\ filledBefore' = (Len(chan) = DEFAULT_CAPACITY)
    /\ UNCHANGED <<futState, dstate, stuck, sends, result, polls, readyCount,
                   observed, futPolled, dpolled, resolvedSeen,
                   captured, chan, accepted, delivered, refused>>

\* A holder of the returned address sends a message: the channel buffers it
\* while it has room.
Send ==
    /\ phase \in {"queued", "spawned"}
    /\ accepted < MaxMsgs
    /\ Len(chan) < DEFAULT_CAPACITY
    /\ chan' = Append(chan, accepted + 1)
    /\ accepted' = accepted + 1
    /\ UNCHANGED <<fut, subscribers, notifications, futState, dstate, stuck, sends,
                   result, polls, readyCount, observed, futPolled, dpolled,
                   resolvedSeen, phase, captured, delivered, filledBefore, refused>>

\* A send that finds the channel full is not buffered.
SendFull ==
    /\ phase \in {"queued", "spawned"}
    /\ Len(chan) >= DEFAULT_CAPACITY
    /\ refused' = TRUE
    /\ UNCHANGED <<fut, subscribers, notifications, futState, dstate, stuck, sends,
                   result, polls, readyCount, observed, futPolled, dpolled,
                   resolvedSeen, phase, captured, chan, accepted, delivered,
                   filledBefore>>

\* The running actor's context takes the oldest message of the channel.
Receive ==
    /\ phase = "spawned"
    /\ fut = "Some"
    /\ futState = "NotReady"
    /\ chan # <<>>
    /\ delivered' = Append(delivered, Head(chan))
    /\ chan' = Tail(chan)
    /\ UNCHANGED <<fut, subscribers, notifications, futState, dstate, stuck, sends,
                   result, polls, readyCount, observed, futPolled, dpolled,
                   resolvedSeen, phase, captured, accepted, filledBefore, refused>>

BootNext ==
    \/ Start
    \/ StartInArbiter
    \/ Execute
    \/ Send
    \/ SendFull
    \/ Receive
    \/ Poll
    \/ FutResolves
    \/ DeliveryResolves

\* The Watcher as the constructors build and spawn it.
BootSpec == BootInit /\ [][BootNext]_vars

\* ---------------------------------------------------------------------------
\* Properties
\* ---------------------------------------------------------------------------

\* Number of send calls made on recipient r.
SendCount(r) == Cardinality({d \in 1..Len(sends) : sends[d].to = r})

\* The requests in the notifications vector.
Pending == {notifications[i] : i \in 1..Len(notifications)}

\* A step that is one call of Watcher::poll.
PollCall == polls' = polls + 1

\* C1: once a poll of the supervised future has returned Ready or Err, send
\* has been invoked exactly once on each subscriber, each time with Stopped,
\* and stays so however many Watcher polls follow (for every list length).
C1_ExactlyOnceNotify ==
    observed =>
        /\ Len(sends) = Len(subscribers)
        /\ \A k \in 1..Len(subscribers) :
              /\ SendCount(subscribers[k]) = 1
              /\ sends[k] = [to |-> subscribers[k], event |-> "Stopped"]

\* C1 witness: three subscribers, each sent to once, and three Watcher polls
\* made after the one that observed termination.
C1_Witness ==
    /\ observed
    /\ Len(subscribers) = 3
    /\ Len(sends) = 3
    /\ fut = "None"
    /\ polls >= 4
    /\ readyCount >= 2

\* C2: while every poll of the supervised future so far returned NotReady,
\* no send has been made.
C2_NoSendBeforeTermination ==
    ~observed => sends = <<>>

\* C2 witness: the Watcher was polled several times with subscribers present,
\* the supervised future was polled and not ready, and nothing was sent.
C2_Witness ==
    /\ ~observed
    /\ polls >= 2
    /\ futPolled
    /\ Len(subscribers) >= 1
    /\ result = "NotReady"
    /\ sends = <<>>

\* C3 as stated: the Watcher reports ready exactly once in total, so never a
\* second time.
C3_ReadyExactlyOnce ==
    readyCount <= 1

\* C3 amended: the reports switch from not-ready to ready at most once and
\* never back: once a poll has returned Ready, the last poll returned Ready,
\* whatever the outcomes of the deliveries; the report is repeated by every
\* further poll.
C3_ReadyFromDoneOn ==
    /\ readyCount > 0 => result = "Ready"
    /\ readyCount > 1 => (fut = "None" /\ notifications = <<>>)

\* C3 witness: the Watcher reported ready more than once, after a delivery
\* that failed and one that succeeded.
C3_Witness ==
    /\ readyCount >= 2
    /\ result = "Ready"
    /\ \E d \in resolvedSeen : dstate[d] = "Err"
    /\ \E d \in resolvedSeen : dstate[d] = "Ready"

\* C4: a Watcher poll returns Ready exactly when, at the end of the call, fut
\* is None and notifications is empty; otherwise it returns NotReady.
C4_ReadyIffDone ==
    polls > 0 =>
        /\ result = "Ready" <=> (fut = "None" /\ notifications = <<>>)
        /\ result = "NotReady" <=> ~(fut = "None" /\ notifications = <<>>)

\* C4 witness: a poll returned Ready with fut None and notifications empty,
\* after an earlier poll returned NotReady with deliveries outstanding.
C4_Witness ==
    /\ result = "Ready"
    /\ fut = "None"
    /\ notifications = <<>>
    /\ Len(sends) >= 2
    /\ polls > readyCount
    /\ observed

\* C5: a Watcher poll made while the supervised future is held and returns
\* NotReady returns NotReady itself and polls no delivery.
C5_NotReadyWhileSupervising ==
    [][(PollCall /\ fut = "Some" /\ futState = "NotReady") =>
           (result' = "NotReady" /\ dpolled' = <<>> /\ futPolled')]_vars

\* C5 witness: such a poll was made.
C5_Witness ==
    /\ polls >= 1
    /\ fut = "Some"
    /\ futPolled
    /\ futState = "NotReady"
    /\ result = "NotReady"
    /\ dpolled = <<>>

\* C6: when the delivery to at least one subscriber never becomes ready, no
\* Watcher poll returns Ready, whatever the other deliveries do.
C6_StuckDeliveryNeverReady ==
    (\E k \in 1..Len(subscribers) : subscribers[k] \in stuck) => readyCount = 0

\* C6 witness: three subscribers, the delivery to the second never ready, the
\* other two resolved and removed, and the Watcher polled again and again.
C6_Witness ==
    /\ Len(subscribers) = 3
    /\ stuck = {2}
    /\ observed
    /\ Len(dstate) = 3
    /\ dstate[1] \in Terminal
    /\ dstate[3] \in Terminal
    /\ dstate[2] = "NotReady"
    /\ notifications = <<2>>
    /\ polls >= 4
    /\ result = "NotReady"

\* Every delivery issued so far has resolved.
AllDeliveriesResolved == \A d \in 1..Len(dstate) : dstate[d] \in Terminal

\* C7: once the supervised future has resolved and the delivery to every
\* subscriber has been issued and has resolved, the next Watcher poll returns
\* Ready; with one subscriber exactly one send is made.
C7_ReadyAfterAllResolved ==
    /\ [][(/\ PollCall
           /\ futState \in Terminal
           /\ Len(dstate) = Len(subscribers)
           /\ AllDeliveriesResolved) => result' = "Ready"]_vars
    /\ []((observed /\ Len(subscribers) = 1) => Len(sends) = 1)

\* C7 witness (scenario A): one subscriber, the supervised future Ready at the
\* first poll, the delivery pending then and Ready afterwards, and the second
\* poll returned Ready.
C7_Witness ==
    /\ Len(subscribers) = 1
    /\ futState = "Ready"
    /\ sends = <<[to |-> 1, event |-> "Stopped"]>>
    /\ dstate = <<"Ready">>
    /\ polls = 2
    /\ readyCount = 1
    /\ result = "Ready"

\* The part of a poll call's effect that the Watcher and its subscribers see.
Visible(r) == [self |-> r.self, ret |-> r.ret, sent |-> r.sent, polled |-> r.polled]

\* C8: in every reachable state a Watcher poll does the same whether the
\* supervised future returns Ready or Err: the same sends of the same Stopped
\* event, the same Watcher state and the same result; so two runs that differ
\* only in that outcome agree step for step.
C8_ReadyAndFailedAlike ==
    /\ Fresh("Ready") = Fresh("Err")
    /\ \A fresh \in Fresh("Ready") :
          poll(self, "Ready", dstate, fresh) = poll(self, "Err", dstate, fresh)
    /\ \A d \in 1..Len(sends) : sends[d].event = "Stopped"

\* C8 witness: the supervised future failed and the subscribers were sent
\* Stopped once each.
C8_Witness ==
    /\ futState = "Err"
    /\ observed
    /\ Len(subscribers) = 2
    /\ sends = <<[to |-> 1, event |-> "Stopped"], [to |-> 2, event |-> "Stopped"]>>

\* C9: no Watcher poll returns Err, whatever the supervised future and the
\* deliveries return.
C9_PollNeverFails ==
    /\ result \in {"none", "NotReady", "Ready"}
    /\ \A fs \in Outcomes : \A fresh \in Fresh(fs) :
          poll(self, fs, dstate, fresh).ret \in {"NotReady", "Ready"}

\* C9 witness: the supervised future failed, a delivery failed and was polled,
\* and the Watcher polls returned NotReady and then Ready.
C9_Witness ==
    /\ futState = "Err"
    /\ \E d \in resolvedSeen : dstate[d] = "Err"
    /\ polls >= 2
    /\ polls > readyCount
    /\ result = "Ready"

\* Delivery outcomes with every failure replaced by success.
AsReady(ds) == [d \in DOMAIN ds |-> IF ds[d] = "Err" THEN "Ready" ELSE ds[d]]

\* C10: a delivery whose poll returned Err is handled as one whose poll
\* returned Ready: it is out of notifications, it is not polled again and
\* nothing is sent again, and each Watcher poll leaves the same Watcher state
\* and returns the same result as if every failed delivery had succeeded.
C10_FailedDeliveryAsReady ==
    /\ [](resolvedSeen \cap Pending = {})
    /\ [][PollCall => \A i \in 1..Len(dpolled') : dpolled'[i] \notin resolvedSeen]_vars
    /\ [][resolvedSeen # {} => sends' = sends]_vars
    /\ [](\A fs \in Outcomes : \A fresh \in Fresh(fs) :
             Visible(poll(self, fs, dstate, fresh))
                 = Visible(poll(self, fs, AsReady(dstate), AsReady(fresh))))

\* C10 witness: a failed delivery was polled once and dropped while another
\* was still pending, and the Watcher then reached Done and reported ready.
C10_Witness ==
    /\ Len(subscribers) >= 2
    /\ \E d \in resolvedSeen : dstate[d] = "Err"
    /\ fut = "None"
    /\ notifications = <<>>
    /\ result = "Ready"
    /\ polls >= 3
    /\ readyCount = 1

\* The messages 1..n in the order they were sent.
Numbered(n) == [i \in 1..n |-> i]

\* C11: with start_in_arbiter, the messages sent through the returned address
\* before the Execute closure has run are all held by the channel, in send
\* order, up to DEFAULT_CAPACITY of them; at every moment, under every
\* interleaving of sender and arbiter, the messages the actor has received
\* followed by those still buffered are the accepted messages in send order.
C11_BufferedInOrder ==
    /\ delivered \o chan = Numbered(accepted)
    /\ phase = "queued" => (delivered = <<>> /\ chan = Numbered(accepted))
    /\ Len(chan) <= DEFAULT_CAPACITY

\* C11 witness: DEFAULT_CAPACITY messages were sent before the closure ran,
\* a further send was refused, and the actor then received all of them in
\* send order.
C11_Witness ==
    /\ captured # 0
    /\ phase = "spawned"
    /\ filledBefore
    /\ refused
    /\ delivered = Numbered(DEFAULT_CAPACITY)

\* The elements of a sequence.
SetOf(q) == {q[i] : i \in 1..Len(q)}

\* C12: fut goes from Some to None at most once, in the poll call that
\* observes termination, and is never set to Some again; no later Watcher poll
\* polls the supervised future.
C12_LifecycleAbsentOnce ==
    /\ [][fut = "None" => fut' = "None"]_vars
    /\ [](observed <=> fut = "None")
    /\ [][(PollCall /\ observed) => ~futPolled']_vars

\* C12 witness: termination was observed and several Watcher polls followed,
\* the last of which did not poll the supervised future.
C12_Witness ==
    /\ observed
    /\ fut = "None"
    /\ polls >= 3
    /\ ~futPolled
    /\ notifications # <<>>

\* C13: notifications is filled within the poll call that sets fut to None,
\* with one request per subscriber: between poll calls fut Some implies
\* notifications empty, notifications never has more entries than subscribers
\* nor two requests to the same subscriber, and after that call every
\* subscriber's request is either in notifications or resolved.
C13_PendingFilledAtomically ==
    /\ [](fut = "Some" => notifications = <<>>)
    /\ [](Len(notifications) <= Len(subscribers))
    /\ [](\A i, j \in 1..Len(notifications) :
             i # j => sends[notifications[i]].to # sends[notifications[j]].to)
    /\ [][(fut = "Some" /\ fut' = "None") =>
             /\ Len(sends') = Len(subscribers)
             /\ Pending' \cup resolvedSeen' = 1..Len(subscribers)]_vars

\* C13 witness: one poll call set fut to None and left a request for each of
\* three subscribers in notifications.
C13_Witness ==
    /\ polls = 1
    /\ fut = "None"
    /\ Len(subscribers) = 3
    /\ Pending = {1, 2, 3}

\* C14: a Watcher poll that ends with fut None polls every request that was in
\* notifications, and every request it issued, exactly once.
C14_EachPendingPolledOnce ==
    [][(PollCall /\ fut' = "None") =>
          /\ SetOf(dpolled') = Pending \cup ((Len(dstate) + 1)..Len(dstate'))
          /\ Len(dpolled') = Cardinality(SetOf(dpolled'))]_vars

\* C14 witness: a later poll polled three pending requests, dropped the one
\* that had resolved and put the two that were not ready back.
C14_Witness ==
    /\ fut = "None"
    /\ polls >= 2
    /\ Len(dpolled) = 3
    /\ Len(notifications) = 2
    /\ Cardinality(resolvedSeen) = 1

\* C15: after a Watcher poll that ends with fut None, notifications holds
\* exactly the requests whose poll returned NotReady in that call, once each;
\* a draining poll adds none; a request that resolved is not polled again.
C15_PendingIsNotReadyOnes ==
    /\ [][(PollCall /\ fut' = "None") =>
             /\ Pending' = {d \in SetOf(dpolled') : dstate'[d] = "NotReady"}
             /\ Len(notifications') = Cardinality(Pending')]_vars
    /\ [][(PollCall /\ fut = "None") => Pending' \subseteq Pending]_vars
    /\ [][PollCall => SetOf(dpolled') \cap resolvedSeen = {}]_vars

\* C15 witness: of three requests one resolved in the first drain and one in
\* a later one, which polled the two remaining and kept one.
C15_Witness ==
    /\ fut = "None"
    /\ Len(subscribers) = 3
    /\ polls >= 2
    /\ Len(dpolled) = 2
    /\ Len(notifications) = 1
    /\ Cardinality(resolvedSeen) = 2

\* C16: once fut is None and notifications is empty, they stay so; a later
\* Watcher poll sends nothing, polls neither the supervised future nor any
\* request, and returns Ready.
C16_DoneAbsorbing ==
    /\ [][(fut = "None" /\ notifications = <<>>) =>
             (fut' = "None" /\ notifications' = <<>> /\ sends' = sends)]_vars
    /\ [][(PollCall /\ fut = "None" /\ notifications = <<>>) =>
             (~futPolled' /\ dpolled' = <<>> /\ result' = "Ready")]_vars

\* C16 witness: two Watcher polls were made after the one that reached Done,
\* with two subscribers notified.
C16_Witness ==
    /\ fut = "None"
    /\ notifications = <<>>
    /\ Len(sends) = 2
    /\ readyCount >= 3
    /\ dpolled = <<>>
    /\ ~futPolled

\* C17: a Watcher poll made with fut Some in which the supervised future
\* returns NotReady changes nothing: fut stays Some, subscribers and
\* notifications are as before, and no send is made.
C17_NotReadyNoChange ==
    [][(PollCall /\ fut = "Some" /\ futState = "NotReady") =>
          /\ fut' = "Some"
          /\ subscribers' = subscribers
          /\ notifications' = notifications
          /\ sends' = sends
          /\ dstate' = dstate]_vars

\* C17 witness: three such polls of a Watcher with two subscribers.
C17_Witness ==
    /\ polls >= 3
    /\ fut = "Some"
    /\ futState = "NotReady"
    /\ futPolled
    /\ Len(subscribers) = 2
    /\ notifications = <<>>
    /\ sends = <<>>

\* C18: the poll call that observes termination sends to every subscriber and
\* polls each request it issued once in the same call; when there is no
\* subscriber or every request resolves at that first poll, the call leaves
\* notifications empty and returns Ready.
C18_FanOutAndDrainInOneCall ==
    [][(PollCall /\ fut = "Some" /\ futState \in Terminal) =>
          /\ fut' = "None"
          /\ Len(sends') = Len(subscribers)
          /\ SetOf(dpolled') = 1..Len(subscribers)
          /\ Len(dpolled') = Len(subscribers)
          /\ (\A d \in 1..Len(dstate') : dstate'[d] \in Terminal) =>
                 (notifications' = <<>> /\ result' = "Ready")]_vars

\* C18 witness: the first Watcher poll observed termination, sent to two
\* subscribers, polled both requests, which had resolved, and returned Ready.
C18_Witness ==
    /\ polls = 1
    /\ result = "Ready"
    /\ Len(subscribers) = 2
    /\ Len(dpolled) = 2
    /\ resolvedSeen = {1, 2}
    /\ fut = "None"

\* No Watcher poll changes the subscriber list, whatever its length.
SubscribersUnchanged == [][subscribers' = subscribers]_vars

\* C19: a Watcher built by start or start_in_arbiter (both through new) starts
\* with exactly one subscriber, the recipient given, fut Some and notifications
\* empty; from then on no step, in any state of the Watcher, changes the
\* subscriber list.
C19_SubscribersFixed ==
    /\ [][(phase # "spawned" /\ phase' = "spawned") =>
             /\ Len(subscribers') = 1
             /\ subscribers'[1] \in Recipients
             /\ captured # 0 => subscribers' = <<captured>>
             /\ fut' = "Some"
             /\ notifications' = <<>>]_vars
    /\ [][phase = "spawned" => subscribers' = subscribers]_vars
    /\ [](phase = "spawned" => Len(subscribers) = 1)

\* C19 witness: a Watcher built by start_in_arbiter was polled while
\* supervising, draining and done, and still has its one subscriber.
C19_Witness ==
    /\ phase = "spawned"
    /\ captured # 0
    /\ subscribers = <<captured>>
    /\ fut = "None"
    /\ notifications = <<>>
    /\ Len(sends) = 1
    /\ polls >= 4
    /\ readyCount = 2

\* C20: when the scheduler keeps polling, the supervised future resolves and
\* every request issued resolves (Ready or Err, in any order), the Watcher
\* reaches Done and reports ready from then on.
C20_NeverStuck ==
    <>[](fut = "None" /\ notifications = <<>> /\ result = "Ready")

\* C20 witness: three requests resolved, one of them failed, over several
\* draining polls, and the Watcher reached Done and reported ready.
C20_Witness ==
    /\ stuck = {}
    /\ Len(subscribers) = 3
    /\ resolvedSeen = {1, 2, 3}
    /\ \E d \in resolvedSeen : dstate[d] = "Err"
    /\ \E d \in resolvedSeen : dstate[d] = "Ready"
    /\ fut = "None"
    /\ notifications = <<>>
    /\ result = "Ready"
    /\ polls = MaxPolls
    /\ readyCount = 1

====
